---- MODULE Spec2Model ----
(***************************************************************************)
(* Cart / catalog / checkout core of the EcoFashion storefront API.        *)
(*                                                                         *)
(* The store is the SQLite database behind runQuery / getRow / getAllRows  *)
(* (api/config/database.js).  Every statement is taken to run against a    *)
(* store that has the columns the statement names: the product's stock     *)
(* count is the column Product.js writes as `stock` and Cart.js reads as   *)
(* `stock_quantity`.  The DDL declares no UNIQUE constraint on             *)
(* cart(user_id, product_id) and no CHECK constraint on any column, so the *)
(* store accepts every row the statements write.                           *)
(*                                                                         *)
(* A request runs its handler up to the next awaited database call in one  *)
(* step; requests interleave at those calls and nowhere else.              *)
(***************************************************************************)
EXTENDS Integers, Sequences, FiniteSets, TLC

\* ---------------------------------------------------------------- bounds
MaxStock == 2
MaxQty == 2
MaxPrice == 2
\* Runs are explored up to this many requests (catalog, cart and order requests alike).
MaxRequests == 3

Users == {"u1", "u2"}
ProductSeq == <<"p1", "p2">>
Products == {ProductSeq[i] : i \in 1..Len(ProductSeq)}
\* Requests in flight at once; a new request takes the first free slot.
MaxInFlight == 2
MaxOrderId == 2
Reqs == 1..MaxInFlight

\* ------------------------------------------------------- JavaScript values
\* A request-body value: a number, a string (its characters), or undefined.
Num(n) == [num |-> n]
Str(s) == [str |-> s]
Undefined == [undef |-> TRUE]
NaN == [nan |-> TRUE]

IsNum(v) == DOMAIN v = {"num"}
IsStr(v) == DOMAIN v = {"str"}
IsUndefined(v) == DOMAIN v = {"undef"}
IsNaN(v) == DOMAIN v = {"nan"}

DigitChars == {"0", "1", "2"}
DigitVal(c) == CASE c = "0" -> 0 [] c = "1" -> 1 [] c = "2" -> 2

\* Value of the digit string s (all characters are digits), most significant first.
RECURSIVE DigitsValue(_)
DigitsValue(s) ==
  IF s = <<>> THEN 0
  ELSE 10 * DigitsValue(SubSeq(s, 1, Len(s) - 1)) + DigitVal(s[Len(s)])

\* Longest prefix of s made of digits.
RECURSIVE DigitPrefix(_)
DigitPrefix(s) ==
  IF s = <<>> \/ s[1] \notin DigitChars THEN <<>>
  ELSE <<s[1]>> \o DigitPrefix(Tail(s))

\* Number(s) for a string: the whole string must be a signed digit string.
StringToNumber(s) ==
  LET neg == s # <<>> /\ s[1] = "-"
      body == IF neg THEN Tail(s) ELSE s
  IN  IF s = <<>> THEN Num(0)
      ELSE IF body # <<>> /\ DigitPrefix(body) = body
           THEN Num(IF neg THEN 0 - DigitsValue(body) ELSE DigitsValue(body))
           ELSE NaN

\* ToNumber(v), as the relational operators apply it to an operand.
ToNumber(v) ==
  IF IsNum(v) THEN v
  ELSE IF IsStr(v) THEN StringToNumber(v.str)
  ELSE NaN

\* v < n for a number n: false when ToNumber(v) is NaN.
JsLessThan(v, n) ==
  LET x == ToNumber(v) IN IsNum(x) /\ x.num < n

\* parseInt(v): an optional sign and the longest run of digits after it.
ParseInt(v) ==
  IF IsNum(v) THEN v
  ELSE IF IsStr(v)
       THEN LET neg == v.str # <<>> /\ v.str[1] = "-"
                body == IF neg THEN Tail(v.str) ELSE v.str
                ds == DigitPrefix(body)
            IN  IF ds = <<>> THEN NaN
                ELSE Num(IF neg THEN 0 - DigitsValue(ds) ELSE DigitsValue(ds))
       ELSE NaN

\* v === n
StrictEq(v, n) == IsNum(v) /\ v.num = n

\* obj.length of a plain object: its own property, or undefined.
ObjLength(obj) == IF "length" \in DOMAIN obj THEN Num(obj.length) ELSE Undefined

\* obj[name] of a plain object: its own property, or undefined.
Prop(obj, name) == IF name \in DOMAIN obj THEN obj[name] ELSE Undefined

\* ------------------------------------------------------------------ inputs
QtyInputs == 0..MaxQty
PriceInputs == 1..MaxPrice
StockInputs ==
  {Num(n) : n \in (0 - 1)..MaxStock} \cup {Str(<<"-", "1", "x">>), Undefined}
\* The line sets handed to Order.create: { product_id, quantity, price } each.
Item(productId, quantity, price) ==
  [product_id |-> productId, quantity |-> quantity, price |-> price]
OrderItemsInputs ==
  {<<Item("p1", 1, 1)>>, <<Item("p1", MaxQty, 1), Item("p2", 1, MaxPrice)>>}
\* Order ids named by requests (an id above the last order names no order).
OrderIdInputs == 1..MaxOrderId
\* validStatuses of updateStatus and of updatePaymentStatus, and a value outside each.
ValidStatuses == {"pending", "confirmed", "processing", "shipped", "delivered", "cancelled"}
StatusInputs == ValidStatuses \cup {"returned"}
ValidPaymentStatuses == {"pending", "paid", "failed", "refunded"}
PaymentStatusInputs == ValidPaymentStatuses \cup {"chargeback"}
\* req.body.reason of a cancel request: absent (falsy), or a text.
NoReason == ""
ReasonInputs == {NoReason, "late"}
\* req.body.order_ids of a bulk request: lists of distinct ids.
BulkIdsInputs == {<<1>>, <<1, MaxOrderId>>}

\* ------------------------------------------------------------------- state
VARIABLES
  products,     \* products table: id -> [exists, price, stock]
  cart,         \* cart table: user -> product -> quantities of the rows, in rowid order
  orders,       \* orders table, in id order
  order_items,  \* order_items table, in id order
  req,          \* the requests in flight: slot -> handler position and locals
  lastResp,     \* the response most recently sent
  nreq          \* requests begun so far

vars == <<products, cart, orders, order_items, req, lastResp, nreq>>

Idle == [op |-> "none", pc |-> "idle", user |-> "-", product |-> "-",
         quantity |-> 0, stock |-> 0, existing |-> 0, newQuantity |-> 0,
         items |-> <<>>, orderId |-> 0, k |-> 0, reason |-> NoReason,
         orderIds |-> <<>>, validIds |-> <<>>]

NoResp == [op |-> "none", user |-> "-", product |-> "-", kind |-> "none",
           details |-> Undefined]

\* A response: the operation, its caller and product, the outcome and its payload.
Resp(op, u, p, kind, details) ==
  [op |-> op, user |-> u, product |-> p, kind |-> kind, details |-> details]

Init ==
  /\ products \in [Products -> [exists : {TRUE}, price : {1}, stock : {MaxStock}]]
  /\ cart = [u \in Users |-> [p \in Products |-> <<>>]]
  /\ orders = <<>>
  /\ order_items = <<>>
  /\ req = [r \in Reqs |-> Idle]
  /\ lastResp = NoResp
  /\ nreq = 0

\* ----------------------------------------------------------------- catalog
\* ProductController.updateStock: PATCH /products/:id/stock.
StockRejected(stock_quantity) ==
  IsUndefined(stock_quantity) \/ JsLessThan(stock_quantity, 0)

\* Product.updateStock: UPDATE products SET stock = ? WHERE id = ?
ProductUpdateStock(id, quantity) ==
  [products EXCEPT ![id].stock = IF products[id].exists THEN quantity ELSE @]

UpdateStock(id, stock_quantity) ==
  /\ IF StockRejected(stock_quantity)
     THEN /\ lastResp' = Resp("updateStock", "-", id, "InvalidStock", Undefined)
          /\ UNCHANGED products
     ELSE /\ products' = ProductUpdateStock(id, ParseInt(stock_quantity).num)
          /\ lastResp' = Resp("updateStock", "-", id,
                              IF products[id].exists THEN "ok" ELSE "NotFound",
                              Undefined)
  /\ UNCHANGED <<cart, orders, order_items, req>>

\* Product.update: UPDATE products SET ..., price = ?, ... WHERE id = ?
ProductUpdate(id, price) ==
  /\ products' = [products EXCEPT ![id].price = IF products[id].exists THEN price ELSE @]
  /\ lastResp' = Resp("productUpdate", "-", id,
                      IF products[id].exists THEN "ok" ELSE "NotFound", Undefined)
  /\ UNCHANGED <<cart, orders, order_items, req>>

\* Product.delete: DELETE FROM products WHERE id = ?  (cart rows are left in place)
ProductDelete(id) ==
  /\ products' = [products EXCEPT ![id].exists = FALSE]
  /\ lastResp' = Resp("productDelete", "-", id,
                      IF products[id].exists THEN "ok" ELSE "NotFound", Undefined)
  /\ UNCHANGED <<cart, orders, order_items, req>>

\* -------------------------------------------------------------- Cart model
\* SELECT ... FROM products WHERE id = ? AND status = "available":
\* the status column is written by no statement, so a stored product is available.
ProductAvailable(productId) == products[productId].exists

\* Cart.getItem: the first row of (user, product), or none.
HasItem(userId, productId) == cart[userId][productId] # <<>>
GetItemQuantity(userId, productId) == cart[userId][productId][1]

\* A cart view that keeps the lines of products that are no longer available.
ItemsOfAnyProduct(userId, productId) ==
  [i \in 1..Len(cart[userId][productId]) |->
     [product_id |-> productId,
      quantity |-> cart[userId][productId][i],
      price |-> products[productId].price,
      stock_quantity |-> products[productId].stock,
      product_status |-> "available",
      item_total |-> products[productId].price * cart[userId][productId][i]]]

\* The rows Cart.getByUser selects for one product: those of an available product,
\* each joined with the product's current price, stock and status.  (The view is
\* listed by product here; its ORDER BY created_at is not modelled.)
ItemsOf(userId, productId) ==
  IF ProductAvailable(productId)
  THEN [i \in 1..Len(cart[userId][productId]) |->
          [product_id |-> productId,
           quantity |-> cart[userId][productId][i],
           price |-> products[productId].price,
           stock_quantity |-> products[productId].stock,
           product_status |-> "available",
           item_total |-> products[productId].price * cart[userId][productId][i]]]
  ELSE <<>>

RECURSIVE ItemsFrom(_, _)
ItemsFrom(userId, k) ==
  IF k > Len(ProductSeq) THEN <<>>
  ELSE ItemsOf(userId, ProductSeq[k]) \o ItemsFrom(userId, k + 1)

\* cartItems.reduce((sum, item) => sum + item.item_total, 0)
RECURSIVE SumItemTotal(_)
SumItemTotal(items) ==
  IF items = <<>> THEN 0 ELSE items[1].item_total + SumItemTotal(Tail(items))

\* cartItems.reduce((sum, item) => sum + item.quantity, 0)
RECURSIVE SumQuantity(_)
SumQuantity(items) ==
  IF items = <<>> THEN 0 ELSE items[1].quantity + SumQuantity(Tail(items))

\* Cart.getByUser: { items, summary }
GetByUserResult(userId) ==
  LET cartItems == ItemsFrom(userId, 1)
  IN  [items |-> cartItems,
       summary |-> [item_count |-> SumQuantity(cartItems),
                    subtotal |-> SumItemTotal(cartItems),
                    total |-> SumItemTotal(cartItems)]]

\* The violations Cart.validateCart pushes for the items, in order.
RECURSIVE ItemErrors(_)
ItemErrors(items) ==
  IF items = <<>> THEN <<>>
  ELSE (IF items[1].product_status # "available"
        THEN <<[kind |-> "unavailable", product_id |-> items[1].product_id,
                available |-> 0]>>
        ELSE <<>>)
       \o (IF items[1].quantity > items[1].stock_quantity
           THEN <<[kind |-> "stock", product_id |-> items[1].product_id,
                   available |-> items[1].stock_quantity]>>
           ELSE <<>>)
       \o ItemErrors(Tail(items))

\* A validateCart without the test for an empty view.
ValidateCartResultNoEmptyTest(userId) ==
  LET c == GetByUserResult(userId)
      errors == ItemErrors(c.items)
  IN  [valid |-> (Len(errors) = 0), errors |-> errors, cart |-> c]

\* Cart.validateCart: { valid, errors } for an empty view, { valid, errors, cart } otherwise.
ValidateCartResult(userId) ==
  LET c == GetByUserResult(userId)
      errors == ItemErrors(c.items)
  IN  IF Len(c.items) = 0
      THEN [valid |-> FALSE, errors |-> <<[kind |-> "empty"]>>]
      ELSE [valid |-> (Len(errors) = 0), errors |-> errors, cart |-> c]

\* UPDATE cart SET quantity = ? WHERE user_id = ? AND product_id = ?
CartUpdateRows(userId, productId, quantity) ==
  [cart EXCEPT ![userId][productId] = [i \in 1..Len(@) |-> quantity]]

\* INSERT INTO cart (user_id, product_id, quantity) VALUES (?, ?, ?)
CartInsertRow(userId, productId, quantity) ==
  [cart EXCEPT ![userId][productId] = Append(@, quantity)]

\* DELETE FROM cart WHERE user_id = ? AND product_id = ?
CartDeleteRows(userId, productId) ==
  [cart EXCEPT ![userId][productId] = <<>>]

\* DELETE FROM cart WHERE user_id = ?
CartDeleteUser(userId) ==
  [cart EXCEPT ![userId] = [p \in Products |-> <<>>]]

FreeSlot(r) ==
  /\ req[r].pc = "idle"
  /\ \A r2 \in Reqs : req[r2].pc = "idle" => r <= r2

Finish(r, resp) ==
  /\ req' = [req EXCEPT ![r] = Idle]
  /\ lastResp' = resp

Goto(r, next) ==
  /\ req' = [req EXCEPT ![r] = next]
  /\ UNCHANGED lastResp

\* An updateQuantity that removes the line for a quantity below 0 only.
UpdateQuantityFirstBelowZero(r, op, userId, productId, quantity) ==
  IF quantity < 0
  THEN /\ cart' = CartDeleteRows(userId, productId)
       /\ Finish(r, Resp(op, userId, productId, "removed",
                         [deleted |-> HasItem(userId, productId)]))
  ELSE /\ UNCHANGED cart
       /\ IF ~ProductAvailable(productId)
          THEN Finish(r, Resp(op, userId, productId, "NotFound", Undefined))
          ELSE IF quantity > products[productId].stock
          THEN Finish(r, Resp(op, userId, productId, "InsufficientStock", Undefined))
          ELSE Goto(r, [req[r] EXCEPT !.op = op, !.pc = "updWrite", !.user = userId,
                                       !.product = productId, !.newQuantity = quantity,
                                       !.stock = products[productId].stock])

\* Cart.updateQuantity up to its first statement: the DELETE of removeItem for a
\* quantity <= 0, the stock SELECT and its checks otherwise.
UpdateQuantityFirst(r, op, userId, productId, quantity) ==
  IF quantity <= 0
  THEN /\ cart' = CartDeleteRows(userId, productId)
       /\ Finish(r, Resp(op, userId, productId, "removed",
                         [deleted |-> HasItem(userId, productId)]))
  ELSE /\ UNCHANGED cart
       /\ IF ~ProductAvailable(productId)
          THEN Finish(r, Resp(op, userId, productId, "NotFound", Undefined))
          ELSE IF quantity > products[productId].stock
          THEN Finish(r, Resp(op, userId, productId, "InsufficientStock", Undefined))
          ELSE Goto(r, [req[r] EXCEPT !.op = op, !.pc = "updWrite", !.user = userId,
                                       !.product = productId, !.newQuantity = quantity,
                                       !.stock = products[productId].stock])

\* Cart.addItem, first statement: the product SELECT.  The method takes the
\* quantity as given: it has no lower bound of its own.
AddItemBegin(r, userId, productId, quantity) ==
  /\ FreeSlot(r)
  /\ UNCHANGED <<products, cart, orders, order_items>>
  /\ IF ~ProductAvailable(productId)
     THEN Finish(r, Resp("addItem", userId, productId, "NotFound", Undefined))
     ELSE Goto(r, [Idle EXCEPT !.op = "addItem", !.pc = "getItem", !.user = userId,
                               !.product = productId, !.quantity = quantity,
                               !.stock = products[productId].stock])

\* An addItem that stores a new line without checking its quantity against the stock.
AddItemGetItemUnchecked(r) ==
  LET a == req[r]
      existing == GetItemQuantity(a.user, a.product)
      newQuantity == existing + a.quantity
  IN  /\ a.pc = "getItem"
      /\ UNCHANGED <<products, cart, orders, order_items>>
      /\ IF HasItem(a.user, a.product)
         THEN IF newQuantity > a.stock
              THEN Finish(r, Resp("addItem", a.user, a.product, "InsufficientStock", Undefined))
              ELSE Goto(r, [a EXCEPT !.pc = "updCall", !.existing = existing,
                                     !.newQuantity = newQuantity])
         ELSE Goto(r, [a EXCEPT !.pc = "insert"])

\* Cart.addItem, second statement: getItem, then the stock check of its branch.
AddItemGetItem(r) ==
  LET a == req[r]
      existing == GetItemQuantity(a.user, a.product)
      newQuantity == existing + a.quantity
  IN  /\ a.pc = "getItem"
      /\ UNCHANGED <<products, cart, orders, order_items>>
      /\ IF HasItem(a.user, a.product)
         THEN IF newQuantity > a.stock
              THEN Finish(r, Resp("addItem", a.user, a.product, "InsufficientStock", Undefined))
              ELSE Goto(r, [a EXCEPT !.pc = "updCall", !.existing = existing,
                                     !.newQuantity = newQuantity])
         ELSE IF a.quantity > a.stock
              THEN Finish(r, Resp("addItem", a.user, a.product, "InsufficientStock", Undefined))
              ELSE Goto(r, [a EXCEPT !.pc = "insert"])

\* Cart.addItem on an existing line: Cart.updateQuantity(userId, productId, newQuantity).
AddItemUpdateQuantity(r) ==
  /\ req[r].pc = "updCall"
  /\ UNCHANGED <<products, orders, order_items>>
  /\ UpdateQuantityFirst(r, "addItem", req[r].user, req[r].product, req[r].newQuantity)

\* Cart.addItem on a new line: the INSERT (the getItem that follows only reads).
AddItemInsert(r) ==
  /\ req[r].pc = "insert"
  /\ cart' = CartInsertRow(req[r].user, req[r].product, req[r].quantity)
  /\ UNCHANGED <<products, orders, order_items>>
  /\ Finish(r, Resp("addItem", req[r].user, req[r].product, "ok",
                    [quantity |-> req[r].quantity, created |-> TRUE]))

\* Cart.updateQuantity called directly.
UpdateQuantityBegin(r, userId, productId, quantity) ==
  /\ FreeSlot(r)
  /\ UNCHANGED <<products, orders, order_items>>
  /\ UpdateQuantityFirst(r, "updateQuantity", userId, productId, quantity)

\* Cart.updateQuantity, the UPDATE (the getItem that follows only reads).
UpdateQuantityWrite(r) ==
  /\ req[r].pc = "updWrite"
  /\ cart' = CartUpdateRows(req[r].user, req[r].product, req[r].newQuantity)
  /\ UNCHANGED <<products, orders, order_items>>
  /\ Finish(r, Resp(req[r].op, req[r].user, req[r].product, "ok",
                    [quantity |-> req[r].newQuantity, created |-> FALSE]))

\* A removeItem that reports a deletion whether or not a line was there.
RemoveItemAlwaysTrue(userId, productId) ==
  /\ cart' = CartDeleteRows(userId, productId)
  /\ lastResp' = Resp("removeItem", userId, productId, "removed", [deleted |-> TRUE])
  /\ UNCHANGED <<products, orders, order_items, req>>

\* Cart.removeItem: returns result.changes > 0.
RemoveItem(userId, productId) ==
  /\ cart' = CartDeleteRows(userId, productId)
  /\ lastResp' = Resp("removeItem", userId, productId, "removed",
                      [deleted |-> HasItem(userId, productId)])
  /\ UNCHANGED <<products, orders, order_items, req>>

\* The number of cart rows of a user.
RECURSIVE RowCount(_, _)
RowCount(userId, k) ==
  IF k > Len(ProductSeq) THEN 0
  ELSE Len(cart[userId][ProductSeq[k]]) + RowCount(userId, k + 1)

\* Cart.clearCart: returns result.changes.
ClearCart(userId) ==
  /\ cart' = CartDeleteUser(userId)
  /\ lastResp' = Resp("clearCart", userId, "-", "cleared",
                      [changes |-> RowCount(userId, 1)])
  /\ UNCHANGED <<products, orders, order_items, req>>

\* Cart.getByUser called directly.
GetByUser(userId) ==
  /\ lastResp' = Resp("getByUser", userId, "-", "ok", GetByUserResult(userId))
  /\ UNCHANGED <<products, cart, orders, order_items, req>>

\* Cart.validateCart called directly.
ValidateCart(userId) ==
  /\ lastResp' = Resp("validateCart", userId, "-", "ok", ValidateCartResult(userId))
  /\ UNCHANGED <<products, cart, orders, order_items, req>>

\* ------------------------------------------------------- OrderController
\* The static methods class Cart defines.
CartMethods ==
  {"addItem", "getItem", "getByUser", "updateQuantity", "removeItem", "clearCart",
   "getItemCount", "getCartTotal", "validateCart", "moveToOrder", "isInCart",
   "getStats", "cleanupOldItems", "getPopularItems", "getAllCarts"}

\* if (!cartItems || cartItems.length === 0): cartItems is the object getByUser returns.
CartItemsEmpty(cartItems) == StrictEq(ObjLength(cartItems), 0)

\* OrderController.create, first statement: Cart.getByUser and the empty-cart test.
CheckoutBegin(r, userId) ==
  LET cartItems == GetByUserResult(userId)
  IN  /\ FreeSlot(r)
      /\ UNCHANGED <<products, cart, orders, order_items>>
      /\ IF CartItemsEmpty(cartItems)
         THEN Finish(r, Resp("checkout", userId, "-", "EmptyCart", Undefined))
         ELSE Goto(r, [Idle EXCEPT !.op = "checkout", !.pc = "validate",
                                   !.user = userId, !.items = cartItems.items])

\* OrderController.create, second statement: Cart.validateCart.  An invalid cart is
\* answered 400 with details: validation.issues; a valid one goes on to call
\* Cart.getTotal, and calling a method the class does not define throws into the
\* handler's catch, which answers 500.
CheckoutValidate(r) ==
  LET userId == req[r].user
      validation == ValidateCartResult(userId)
  IN  /\ req[r].pc = "validate"
      /\ UNCHANGED <<products, cart, orders, order_items>>
      /\ IF ~validation.valid
         THEN Finish(r, Resp("checkout", userId, "-", "CartInvalid",
                             Prop(validation, "issues")))
         ELSE IF "getTotal" \notin CartMethods
         THEN Finish(r, Resp("checkout", userId, "-", "ServerError", Undefined))
         ELSE Goto(r, [req[r] EXCEPT !.pc = "getTotal"])

\* ------------------------------------------------------------- Order model
\* for (const item of items) total_amount += item.price * item.quantity
RECURSIVE TotalAmount(_)
TotalAmount(items) ==
  IF items = <<>> THEN 0
  ELSE items[1].price * items[1].quantity + TotalAmount(Tail(items))

\* orders.notes: NULL, or the text a cancellation writes.
NoNotes == <<>>
CancelNotes(reason) ==
  IF reason = NoReason THEN <<"Pedido cancelado">> ELSE <<"Cancelado: ", reason>>

\* The place of a deleted order row: orders.id is AUTOINCREMENT, so the rowid of a
\* deleted row is not given out again and the table keeps its place empty.
DeletedRow(id) ==
  [id |-> id, user_id |-> "-", total_amount |-> 0, status |-> "deleted",
   payment_status |-> "deleted", notes |-> NoNotes]

\* The row id is stored in the table.
Stored(table, id) == id \in 1..Len(table) /\ table[id] # DeletedRow(id)

\* Order.findById: the order row, or none.
OrderExists(id) == Stored(orders, id)

\* UPDATE orders SET status = ? [, notes = ?] WHERE id = ?
OrdersSetStatus(id, status) ==
  IF OrderExists(id) THEN [orders EXCEPT ![id].status = status] ELSE orders
\* An UPDATE of status and notes that also marks the payment refunded.
OrdersSetStatusNotesRefunding(id, status, notes) ==
  IF OrderExists(id)
  THEN [orders EXCEPT ![id].status = status, ![id].notes = notes,
                      ![id].payment_status = "refunded"]
  ELSE orders

OrdersSetStatusNotes(id, status, notes) ==
  IF OrderExists(id) THEN [orders EXCEPT ![id].status = status, ![id].notes = notes]
  ELSE orders

\* UPDATE orders SET payment_status = ? WHERE id = ?
OrdersSetPaymentStatus(id, paymentStatus) ==
  IF OrderExists(id) THEN [orders EXCEPT ![id].payment_status = paymentStatus]
  ELSE orders

\* What a handler answers after Order.findById(id) of the row it has written.
FoundOrder(op, table, id) ==
  IF Stored(table, id)
  THEN Resp(op, "-", "-", "ok", table[id])
  ELSE Resp(op, "-", "-", "NotFound", Undefined)

\* An updateStatus that lets no order leave the statuses delivered and cancelled.
OrderUpdateStatusTerminal(isAdmin, id, status) ==
  /\ IF ~isAdmin
     THEN /\ UNCHANGED orders
          /\ lastResp' = Resp("updateStatus", "-", "-", "Forbidden", Undefined)
     ELSE IF status \notin ValidStatuses
     THEN /\ UNCHANGED orders
          /\ lastResp' = Resp("updateStatus", "-", "-", "InvalidStatus", Undefined)
     ELSE IF OrderExists(id) /\ orders[id].status \in {"delivered", "cancelled"}
     THEN /\ UNCHANGED orders
          /\ lastResp' = Resp("updateStatus", "-", "-", "InvalidTransition", Undefined)
     ELSE /\ orders' = OrdersSetStatus(id, status)
          /\ lastResp' = FoundOrder("updateStatus", orders', id)
  /\ UNCHANGED <<products, cart, order_items, req>>

\* PATCH /orders/:id/status: requireAdmin, then OrderController.updateStatus and
\* Order.updateStatus (both test the status against validStatuses; no notes are
\* passed), then Order.findById.
OrderUpdateStatus(isAdmin, id, status) ==
  /\ IF ~isAdmin
     THEN /\ UNCHANGED orders
          /\ lastResp' = Resp("updateStatus", "-", "-", "Forbidden", Undefined)
     ELSE IF status \notin ValidStatuses
     THEN /\ UNCHANGED orders
          /\ lastResp' = Resp("updateStatus", "-", "-", "InvalidStatus", Undefined)
     ELSE /\ orders' = OrdersSetStatus(id, status)
          /\ lastResp' = FoundOrder("updateStatus", orders', id)
  /\ UNCHANGED <<products, cart, order_items, req>>

\* PATCH /orders/:id/payment-status: requireAdmin, then
\* OrderController.updatePaymentStatus and Order.updatePaymentStatus, then findById.
OrderUpdatePaymentStatus(isAdmin, id, paymentStatus) ==
  /\ IF ~isAdmin
     THEN /\ UNCHANGED orders
          /\ lastResp' = Resp("updatePaymentStatus", "-", "-", "Forbidden", Undefined)
     ELSE IF paymentStatus \notin ValidPaymentStatuses
     THEN /\ UNCHANGED orders
          /\ lastResp' = Resp("updatePaymentStatus", "-", "-", "InvalidStatus", Undefined)
     ELSE /\ orders' = OrdersSetPaymentStatus(id, paymentStatus)
          /\ lastResp' = FoundOrder("updatePaymentStatus", orders', id)
  /\ UNCHANGED <<products, cart, order_items, req>>

\* The statuses OrderController.cancel refuses, and those Order.cancel refuses.
ControllerNoCancel == {"shipped", "delivered", "cancelled"}
ModelNoCancel == {"delivered", "cancelled"}

\* A cancel handler without the test of the caller against the order's owner.
OrderCancelBeginAnyCaller(r, userId, isAdmin, id, reason) ==
  /\ FreeSlot(r)
  /\ UNCHANGED <<products, cart, orders, order_items>>
  /\ IF ~OrderExists(id)
     THEN Finish(r, Resp("cancel", userId, "-", "NotFound", Undefined))
     ELSE IF orders[id].status \in ControllerNoCancel
     THEN Finish(r, Resp("cancel", userId, "-", "InvalidTransition", Undefined))
     ELSE Goto(r, [Idle EXCEPT !.op = "cancel", !.pc = "cancelFind", !.user = userId,
                               !.orderId = id, !.reason = reason])

\* OrderController.cancel, first statement: Order.findById, then the tests for the
\* order, the caller's permission and the order's status.
OrderCancelBegin(r, userId, isAdmin, id, reason) ==
  /\ FreeSlot(r)
  /\ UNCHANGED <<products, cart, orders, order_items>>
  /\ IF ~OrderExists(id)
     THEN Finish(r, Resp("cancel", userId, "-", "NotFound", Undefined))
     ELSE IF ~isAdmin /\ orders[id].user_id # userId
     THEN Finish(r, Resp("cancel", userId, "-", "Forbidden", Undefined))
     ELSE IF orders[id].status \in ControllerNoCancel
     THEN Finish(r, Resp("cancel", userId, "-", "InvalidTransition", Undefined))
     ELSE Goto(r, [Idle EXCEPT !.op = "cancel", !.pc = "cancelFind", !.user = userId,
                               !.orderId = id, !.reason = reason])

\* Order.cancel, first statement: its own Order.findById and status test; what it
\* throws lands in the handler's catch, which answers 500.
OrderCancelFind(r) ==
  LET a == req[r]
  IN  /\ a.pc = "cancelFind"
      /\ UNCHANGED <<products, cart, orders, order_items>>
      /\ IF ~OrderExists(a.orderId) \/ orders[a.orderId].status \in ModelNoCancel
         THEN Finish(r, Resp("cancel", a.user, "-", "ServerError", Undefined))
         ELSE Goto(r, [a EXCEPT !.pc = "cancelWrite"])

\* Order.cancel, second statement: Order.updateStatus(id, 'cancelled', notes), its
\* UPDATE and its findById.
OrderCancelWrite(r) ==
  LET a == req[r]
  IN  /\ a.pc = "cancelWrite"
      /\ orders' = OrdersSetStatusNotes(a.orderId, "cancelled", CancelNotes(a.reason))
      /\ UNCHANGED <<products, cart, order_items>>
      /\ Finish(r, [FoundOrder("cancel", orders', a.orderId) EXCEPT !.user = a.user])

\* The static methods class Order defines.
OrderMethods ==
  {"create", "findById", "getOrderItems", "findByUser", "findAll", "updateStatus",
   "updatePaymentStatus", "cancel", "getStats", "getRecent", "isOwner", "delete",
   "getMonthlyRevenue", "bulkUpdateStatus", "bulkCancel", "exportData"}

\* GET /orders/:id, OrderController.getById: Order.findById, the tests for the
\* order and the caller's permission, then Order.getItems; calling a method the
\* class does not define throws into the handler's catch, which answers 500.
OrderGetById(userId, isAdmin, id) ==
  /\ UNCHANGED <<products, cart, orders, order_items, req>>
  /\ lastResp' =
       IF ~OrderExists(id)
       THEN Resp("getById", userId, "-", "NotFound", Undefined)
       ELSE IF ~isAdmin /\ orders[id].user_id # userId
       THEN Resp("getById", userId, "-", "Forbidden", Undefined)
       ELSE IF "getItems" \notin OrderMethods
       THEN Resp("getById", userId, "-", "ServerError", Undefined)
       ELSE Resp("getById", userId, "-", "ok", orders[id])

\* The ids of a list that name a stored order (the rows WHERE id IN (...) selects).
RECURSIVE StoredIds(_, _)
StoredIds(table, ids) ==
  IF ids = <<>> THEN <<>>
  ELSE (IF Stored(table, ids[1]) THEN <<ids[1]>> ELSE <<>>) \o StoredIds(table, Tail(ids))

\* The set of the ids of a list.
IdSet(ids) == {ids[i] : i \in 1..Len(ids)}

\* UPDATE orders SET status = ? WHERE id IN (...)
OrdersSetStatusIn(ids, status) ==
  [id \in 1..Len(orders) |->
     IF id \in IdSet(ids) /\ OrderExists(id)
     THEN [orders[id] EXCEPT !.status = status]
     ELSE orders[id]]

\* POST /orders/admin/bulk-update-status: requireAdmin, then
\* OrderController.bulkUpdateStatus (tests of order_ids and of status) and
\* Order.bulkUpdateStatus, whose throw for a status outside validStatuses lands in
\* the handler's catch; the result counts the rows the one UPDATE changed.
OrderBulkUpdateStatus(isAdmin, orderIds, status) ==
  /\ IF ~isAdmin
     THEN /\ UNCHANGED orders
          /\ lastResp' = Resp("bulkUpdateStatus", "-", "-", "Forbidden", Undefined)
     ELSE IF Len(orderIds) = 0
     THEN /\ UNCHANGED orders
          /\ lastResp' = Resp("bulkUpdateStatus", "-", "-", "InvalidIds", Undefined)
     ELSE IF status = ""
     THEN /\ UNCHANGED orders
          /\ lastResp' = Resp("bulkUpdateStatus", "-", "-", "MissingStatus", Undefined)
     ELSE IF status \notin ValidStatuses
     THEN /\ UNCHANGED orders
          /\ lastResp' = Resp("bulkUpdateStatus", "-", "-", "ServerError", Undefined)
     ELSE /\ orders' = OrdersSetStatusIn(orderIds, status)
          /\ lastResp' = Resp("bulkUpdateStatus", "-", "-", "ok",
                              [updated |-> Len(StoredIds(orders, orderIds)),
                               total |-> Len(orderIds), status |-> status])
  /\ UNCHANGED <<products, cart, order_items, req>>

\* A selection of the orders to cancel that leaves out the test of the status.
RECURSIVE ValidIdsAnyStatus(_)
ValidIdsAnyStatus(ids) ==
  IF ids = <<>> THEN <<>>
  ELSE (IF OrderExists(ids[1]) THEN <<ids[1]>> ELSE <<>>) \o ValidIdsAnyStatus(Tail(ids))

\* SELECT id, status FROM orders WHERE id IN (...) AND status NOT IN
\* ('delivered', 'cancelled'): the ids of the rows selected.
RECURSIVE ValidIds(_)
ValidIds(ids) ==
  IF ids = <<>> THEN <<>>
  ELSE (IF OrderExists(ids[1]) /\ orders[ids[1]].status \notin ModelNoCancel
        THEN <<ids[1]>> ELSE <<>>) \o ValidIds(Tail(ids))

\* The notes a bulk cancellation writes.
BulkCancelNotes(reason) ==
  IF reason = NoReason THEN <<"Pedido cancelado em massa">>
  ELSE <<"Cancelado em massa: ", reason>>

\* UPDATE orders SET status = 'cancelled', notes = ? WHERE id IN (...)
OrdersCancelIn(ids, notes) ==
  [id \in 1..Len(orders) |->
     IF id \in IdSet(ids) /\ OrderExists(id)
     THEN [orders[id] EXCEPT !.status = "cancelled", !.notes = notes]
     ELSE orders[id]]

\* POST /orders/admin/bulk-cancel: requireAdmin, OrderController.bulkCancel and the
\* first statement of Order.bulkCancel, the SELECT of the orders it may cancel.
OrderBulkCancelBegin(r, isAdmin, orderIds, reason) ==
  LET validIds == ValidIds(orderIds)
  IN  /\ FreeSlot(r)
      /\ UNCHANGED <<products, cart, orders, order_items>>
      /\ IF ~isAdmin
         THEN Finish(r, Resp("bulkCancel", "-", "-", "Forbidden", Undefined))
         ELSE IF Len(orderIds) = 0
         THEN Finish(r, Resp("bulkCancel", "-", "-", "InvalidIds", Undefined))
         ELSE IF Len(validIds) = 0
         THEN Finish(r, Resp("bulkCancel", "-", "-", "ok",
                             [cancelled |-> 0, total |-> Len(orderIds),
                              errors |-> <<[kind |-> "none"]>>]))
         ELSE Goto(r, [Idle EXCEPT !.op = "bulkCancel", !.pc = "bulkCancelWrite",
                                   !.orderIds = orderIds, !.validIds = validIds,
                                   !.reason = reason])

\* Order.bulkCancel, second statement: the UPDATE of the orders selected, and the
\* result: the rows changed, the ids given, and how many of them were not selected.
OrderBulkCancelWrite(r) ==
  LET a == req[r]
  IN  /\ a.pc = "bulkCancelWrite"
      /\ orders' = OrdersCancelIn(a.validIds, BulkCancelNotes(a.reason))
      /\ UNCHANGED <<products, cart, order_items>>
      /\ Finish(r, Resp("bulkCancel", "-", "-", "ok",
                        [cancelled |-> Len(StoredIds(orders, a.validIds)),
                         total |-> Len(a.orderIds),
                         errors |-> IF Len(a.validIds) < Len(a.orderIds)
                                    THEN <<[kind |-> "skipped",
                                            count |-> Len(a.orderIds) - Len(a.validIds)]>>
                                    ELSE <<>>]))

\* DELETE FROM order_items WHERE order_id = ?
OrderItemsDelete(id) == SelectSeq(order_items, LAMBDA row : row.order_id # id)

\* DELETE FROM orders WHERE id = ?
OrdersDelete(id) ==
  IF OrderExists(id) THEN [orders EXCEPT ![id] = DeletedRow(id)] ELSE orders

\* DELETE /orders/:id: requireAdmin, then OrderController.delete and the first
\* statement of Order.delete, which deletes the order's lines.
OrderDeleteBegin(r, isAdmin, id) ==
  /\ FreeSlot(r)
  /\ UNCHANGED <<products, cart, orders>>
  /\ IF ~isAdmin
     THEN /\ UNCHANGED order_items
          /\ Finish(r, Resp("delete", "-", "-", "Forbidden", Undefined))
     ELSE /\ order_items' = OrderItemsDelete(id)
          /\ Goto(r, [Idle EXCEPT !.op = "delete", !.pc = "deleteOrder", !.orderId = id])

\* Order.delete, second statement: the order row; changes > 0 tells the handler
\* whether to answer 404.
OrderDeleteOrder(r) ==
  LET a == req[r]
  IN  /\ a.pc = "deleteOrder"
      /\ orders' = OrdersDelete(a.orderId)
      /\ UNCHANGED <<products, cart, order_items>>
      /\ Finish(r, Resp("delete", "-", "-",
                        IF OrderExists(a.orderId) THEN "ok" ELSE "NotFound", Undefined))

\* Order.create, first statement: the total and the INSERT INTO orders.  status and
\* payment_status take the column defaults; the new id is the next rowid.
OrderCreateBegin(r, user_id, items) ==
  LET orderId == Len(orders) + 1
  IN  /\ FreeSlot(r)
      /\ orders' = Append(orders, [id |-> orderId, user_id |-> user_id,
                                   total_amount |-> TotalAmount(items),
                                   status |-> "pending", payment_status |-> "pending",
                                   notes |-> NoNotes])
      /\ UNCHANGED <<products, cart, order_items>>
      /\ Goto(r, [Idle EXCEPT !.op = "orderCreate", !.pc = "items", !.user = user_id,
                              !.items = items, !.orderId = orderId, !.k = 1])

\* An order creation that takes each ordered quantity off the product's stock
\* (what Order.create does not do).
OrderCreateItemTakingStock(r) ==
  LET a == req[r]
      item == a.items[a.k]
  IN  /\ a.pc = "items"
      /\ order_items' = Append(order_items,
                               [order_id |-> a.orderId, product_id |-> item.product_id,
                                quantity |-> item.quantity, price |-> item.price])
      /\ products' = [products EXCEPT ![item.product_id].stock = @ - item.quantity]
      /\ UNCHANGED <<cart, orders>>
      /\ IF a.k < Len(a.items)
         THEN Goto(r, [a EXCEPT !.k = a.k + 1])
         ELSE Finish(r, Resp("orderCreate", a.user, "-", "ok", [id |-> a.orderId]))

\* Order.create, one turn of its second loop: the INSERT INTO order_items of the
\* next line; after the last one, Order.findById (which only reads).
OrderCreateItem(r) ==
  LET a == req[r]
      item == a.items[a.k]
  IN  /\ a.pc = "items"
      /\ order_items' = Append(order_items,
                               [order_id |-> a.orderId, product_id |-> item.product_id,
                                quantity |-> item.quantity, price |-> item.price])
      /\ UNCHANGED <<products, cart, orders>>
      /\ IF a.k < Len(a.items)
         THEN Goto(r, [a EXCEPT !.k = a.k + 1])
         ELSE Finish(r, Resp("orderCreate", a.user, "-", "ok", [id |-> a.orderId]))

\* Order.create, one turn of its second loop in which the store fails the INSERT:
\* runQuery rejects, Order.create throws to its caller, and nothing undoes the
\* statements that ran before.
OrderCreateItemFails(r) ==
  LET a == req[r]
  IN  /\ a.pc = "items"
      /\ UNCHANGED <<products, cart, orders, order_items>>
      /\ Finish(r, Resp("orderCreate", a.user, "-", "StorageError", [id |-> a.orderId]))

\* -------------------------------------------------------------------- spec
\* The beginning of a request, and a step of a request in flight.
Request(A) == nreq < MaxRequests /\ nreq' = nreq + 1 /\ A
Step(A) == UNCHANGED nreq /\ A

Next ==
  \/ \E id \in Products, s \in StockInputs : Request(UpdateStock(id, s))
  \/ \E id \in Products, price \in PriceInputs : Request(ProductUpdate(id, price))
  \/ \E id \in Products : Request(ProductDelete(id))
  \/ \E r \in Reqs, u \in Users, p \in Products, q \in QtyInputs :
       Request(AddItemBegin(r, u, p, q))
  \/ \E r \in Reqs : Step(AddItemGetItem(r))
  \/ \E r \in Reqs : Step(AddItemUpdateQuantity(r))
  \/ \E r \in Reqs : Step(AddItemInsert(r))
  \/ \E r \in Reqs, u \in Users, p \in Products, q \in QtyInputs :
       Request(UpdateQuantityBegin(r, u, p, q))
  \/ \E r \in Reqs : Step(UpdateQuantityWrite(r))
  \/ \E u \in Users, p \in Products : Request(RemoveItem(u, p))
  \/ \E u \in Users : Request(ClearCart(u))
  \/ \E u \in Users : Request(GetByUser(u))
  \/ \E u \in Users : Request(ValidateCart(u))
  \/ \E r \in Reqs, u \in Users : Request(CheckoutBegin(r, u))
  \/ \E r \in Reqs : Step(CheckoutValidate(r))
  \/ \E r \in Reqs, u \in Users, items \in OrderItemsInputs :
       Request(OrderCreateBegin(r, u, items))
  \/ \E r \in Reqs : Step(OrderCreateItem(r))
  \/ \E r \in Reqs : Step(OrderCreateItemFails(r))
  \/ \E isAdmin \in BOOLEAN, id \in OrderIdInputs, status \in StatusInputs :
       Request(OrderUpdateStatus(isAdmin, id, status))
  \/ \E isAdmin \in BOOLEAN, id \in OrderIdInputs, ps \in PaymentStatusInputs :
       Request(OrderUpdatePaymentStatus(isAdmin, id, ps))
  \/ \E r \in Reqs, u \in Users, isAdmin \in BOOLEAN, id \in OrderIdInputs,
        reason \in ReasonInputs :
       Request(OrderCancelBegin(r, u, isAdmin, id, reason))
  \/ \E r \in Reqs : Step(OrderCancelFind(r))
  \/ \E r \in Reqs : Step(OrderCancelWrite(r))
  \/ \E r \in Reqs, isAdmin \in BOOLEAN, id \in OrderIdInputs :
       Request(OrderDeleteBegin(r, isAdmin, id))
  \/ \E r \in Reqs : Step(OrderDeleteOrder(r))
  \/ \E u \in Users, isAdmin \in BOOLEAN, id \in OrderIdInputs :
       Request(OrderGetById(u, isAdmin, id))
  \/ \E isAdmin \in BOOLEAN, ids \in BulkIdsInputs, status \in StatusInputs :
       Request(OrderBulkUpdateStatus(isAdmin, ids, status))
  \/ \E r \in Reqs, isAdmin \in BOOLEAN, ids \in BulkIdsInputs, reason \in ReasonInputs :
       Request(OrderBulkCancelBegin(r, isAdmin, ids, reason))
  \/ \E r \in Reqs : Step(OrderBulkCancelWrite(r))

Spec == Init /\ [][Next]_vars

\* The same system started from a store in which u1 already has a line for each
\* product (the store Spec reaches after two addItem calls).
StockedInit ==
  /\ products \in [Products -> [exists : {TRUE}, price : {1}, stock : {MaxStock}]]
  /\ cart = [u \in Users |-> [p \in Products |->
               IF u = "u1" THEN (IF p = "p1" THEN <<1>> ELSE <<MaxQty>>) ELSE <<>>]]
  /\ orders = <<>>
  /\ order_items = <<>>
  /\ req = [r \in Reqs |-> Idle]
  /\ lastResp = NoResp
  /\ nreq = 0

StockedSpec == StockedInit /\ [][Next]_vars

TypeOK ==
  /\ \A p \in Products : products[p].stock \in Int
  /\ \A u \in Users, p \in Products : cart[u][p] \in Seq(Int)

\* ------------------------------------------------------------------ claims
\* A step on which the checkout request in slot r, made by user u, is answered:
\* after Cart.validateCart, or at once by the empty-cart test.
CheckoutAnswers(r, u) ==
  \/ /\ req[r].op = "checkout" /\ req[r].user = u
     /\ req[r].pc = "validate" /\ req'[r].pc = "idle"
  \/ /\ FreeSlot(r) /\ nreq' = nreq + 1 /\ req' = req
     /\ lastResp'.op = "checkout" /\ lastResp'.user = u

\* The order lines a checkout freezes from a cart view, for the order orderId.
FrozenLines(items, orderId) ==
  [i \in 1..Len(items) |->
     [order_id |-> orderId, product_id |-> items[i].product_id,
      quantity |-> items[i].quantity, price |-> items[i].price]]

\* Some line of the user's cart view asks for more than the product's stock.
OverStock(u) ==
  \E i \in 1..Len(GetByUserResult(u).items) :
    GetByUserResult(u).items[i].quantity > GetByUserResult(u).items[i].stock_quantity

\* The stored cart of u is as the data model wants it: at most one line per
\* product, each of quantity >= 1, over products of non-negative stock.
CartWellFormed(u) ==
  \A p \in Products :
    /\ Len(cart[u][p]) <= 1
    /\ \A i \in 1..Len(cart[u][p]) : cart[u][p][i] >= 1
    /\ products[p].stock >= 0

\* C1: a checkout by a user whose cart is non-empty and valid creates exactly one
\* order whose total_amount is the sum of price x quantity over the cart lines,
\* one order line per cart line with that line's product, quantity and price,
\* and leaves the user's cart empty.
C1_ValidCheckoutCreatesOrder ==
  [][\A r \in Reqs, u \in Users :
       (CheckoutAnswers(r, u) /\ CartWellFormed(u) /\ ValidateCartResult(u).valid) =>
         LET c == GetByUserResult(u)
             orderId == Len(orders) + 1
         IN  /\ Len(orders') = Len(orders) + 1
             /\ orders'[orderId].user_id = u
             /\ orders'[orderId].total_amount = c.summary.subtotal
             /\ order_items' = order_items \o FrozenLines(c.items, orderId)
             /\ cart'[u] = [p \in Products |-> <<>>]]_vars

\* C2: a checkout on a cart with a line whose quantity exceeds the product's stock
\* is answered CartInvalid, the answer carries the list of violations, and no
\* order and no order line is created.
C2_OverStockCheckoutFails ==
  [][\A r \in Reqs, u \in Users :
       (CheckoutAnswers(r, u) /\ CartWellFormed(u) /\ OverStock(u)) =>
         /\ lastResp'.kind = "CartInvalid"
         /\ ~IsUndefined(lastResp'.details)
         /\ lastResp'.details = ValidateCartResult(u).errors
         /\ UNCHANGED <<orders, order_items>>]_vars

\* C3: a checkout by a user whose cart has no lines is answered EmptyCart and
\* leaves orders, order lines, carts and stock unchanged.
C3_EmptyCartCheckoutFails ==
  [][\A r \in Reqs, u \in Users :
       (CheckoutAnswers(r, u) /\ \A p \in Products : cart[u][p] = <<>>) =>
         /\ lastResp'.kind = "EmptyCart"
         /\ UNCHANGED <<orders, order_items, cart, products>>]_vars

\* C5: checkouts do not exclude each other: when two checkouts of valid carts are
\* in flight together, both past the cart read, the one that is answered has
\* created its order (so both create one, and the ordered quantities can exceed
\* the stock).
C5_ConcurrentCheckoutsBothCreate ==
  [][\A r1 \in Reqs, r2 \in Reqs :
       (/\ r1 # r2
        /\ req[r2].op = "checkout" /\ req[r2].pc = "validate"
        /\ CartWellFormed(req[r2].user) /\ ValidateCartResult(req[r2].user).valid
        /\ req[r1].op = "checkout"
        /\ CheckoutAnswers(r1, req[r1].user)
        /\ CartWellFormed(req[r1].user) /\ ValidateCartResult(req[r1].user).valid) =>
         Len(orders') = Len(orders) + 1]_vars

\* C6: no cart operation, checkout or order creation changes a product's stock:
\* stock changes only on the step of a stock update that sets it directly.
C6_StockChangesOnlyByUpdateStock ==
  [][\A p \in Products :
       products'[p].stock # products[p].stock =>
         /\ req' = req
         /\ UNCHANGED <<cart, orders, order_items>>
         /\ lastResp'.op = "updateStock"
         /\ lastResp'.product = p
         /\ lastResp'.kind = "ok"]_vars

\* C6, its case: an order has been created and a cart line stored, and every
\* product still has the stock it started with.
C6_Witness ==
  /\ lastResp.op = "orderCreate" /\ lastResp.kind = "ok"
  /\ Len(order_items) > 0
  /\ \E u \in Users, p \in Products : cart[u][p] # <<>>
  /\ \A p \in Products : products[p].stock = MaxStock

\* C7: in every reachable state every product's stock is a non-negative integer.
C7_StockNonNegative ==
  \A p \in Products : products[p].stock \in Nat

\* C8: the store holds at most one cart line per (user, product) pair.
C8_OneLinePerUserProduct ==
  \A u \in Users, p \in Products : Len(cart[u][p]) <= 1

\* C8, its case: two addItem calls for one (user, product), each of quantity 1,
\* have both stored their line.
C8_Witness ==
  \E u \in Users, p \in Products : cart[u][p] = <<1, 1>>

\* C9: every stored cart line has quantity >= 1.
C9_QuantityAtLeastOne ==
  \A u \in Users, p \in Products :
    \A i \in 1..Len(cart[u][p]) : cart[u][p][i] >= 1

\* C10: addItem on a product already in the user's cart, when existing + qty does
\* not exceed the stock, sets the line's quantity to existing + qty; on a product
\* not yet in the cart it creates one line with quantity qty.
C10_AddItemAccumulates ==
  [][\A r \in Reqs :
       LET a == req[r]
       IN  /\ (/\ a.op = "addItem" /\ a.pc = "updCall" /\ req'[r].pc # "updCall"
               /\ ProductAvailable(a.product)
               /\ a.existing + a.quantity <= products[a.product].stock) =>
                 /\ req'[r].pc = "updWrite"
                 /\ req'[r].newQuantity = a.existing + a.quantity
           /\ (a.op = "addItem" /\ a.pc = "updWrite" /\ req'[r].pc = "idle") =>
                 cart'[a.user][a.product] =
                   [i \in 1..Len(cart[a.user][a.product]) |-> a.existing + a.quantity]
           /\ (a.op = "addItem" /\ a.pc = "insert" /\ req'[r].pc = "idle") =>
                 cart'[a.user][a.product] = Append(cart[a.user][a.product], a.quantity)]_vars

\* A step on which the cart mutation in slot r stores its quantity: the INSERT of
\* addItem, or the UPDATE of updateQuantity (called directly or by addItem).
StoresQuantity(r, quantity) ==
  \/ /\ req[r].pc = "insert" /\ req'[r].pc = "idle" /\ quantity = req[r].quantity
  \/ /\ req[r].pc = "updWrite" /\ req'[r].pc = "idle" /\ quantity = req[r].newQuantity
     /\ HasItem(req[r].user, req[r].product)

\* A step on which a cart mutation is answered InsufficientStock.
AnswersInsufficientStock ==
  /\ lastResp'.kind = "InsufficientStock"
  /\ \/ \E r \in Reqs : req[r].pc \in {"getItem", "updCall"} /\ req'[r].pc = "idle"
     \/ nreq' = nreq + 1 /\ req' = req

RemoveItemEffect(u, p) ==
  /\ cart' = CartDeleteRows(u, p)
  /\ UNCHANGED <<products, orders, order_items, req>>
  /\ lastResp'.kind = "removed"
  /\ lastResp'.details = [deleted |-> HasItem(u, p)]

\* C12: updateQuantity(user, product, qty) with qty <= 0 leaves the system in the
\* state removeItem(user, product) leaves it in: the line is gone and nothing else
\* changes.
C12_UpdateQuantityZeroIsRemoveItem ==
  [][\A u \in Users, p \in Products :
       /\ \A r \in Reqs, q \in QtyInputs :
            (q <= 0 /\ Request(UpdateQuantityBegin(r, u, p, q))) => RemoveItemEffect(u, p)
       /\ Request(RemoveItem(u, p)) => RemoveItemEffect(u, p)]_vars

\* C12, its case: an updateQuantity with quantity 0 has deleted a stored line.
C12_Witness ==
  /\ lastResp.op = "updateQuantity" /\ lastResp.kind = "removed"
  /\ lastResp.details = [deleted |-> TRUE]
  /\ cart[lastResp.user][lastResp.product] = <<>>

\* C13: removeItem(user, product) is idempotent: it never fails, it leaves no line
\* of (user, product) and changes nothing else, it returns true exactly when the
\* call deleted a line, and a second call right after it changes nothing and
\* returns false.
C13_RemoveItemIdempotent ==
  [][\A u \in Users, p \in Products :
       Request(RemoveItem(u, p)) =>
         /\ lastResp'.kind = "removed"
         /\ lastResp'.details.deleted = (cart[u][p] # <<>>)
         /\ cart'[u][p] = <<>>
         /\ \A u2 \in Users, p2 \in Products :
              (u2 # u \/ p2 # p) => cart'[u2][p2] = cart[u2][p2]
         /\ UNCHANGED <<products, orders, order_items, req>>
         /\ (lastResp.op = "removeItem" /\ lastResp.user = u /\ lastResp.product = p
             /\ cart[u][p] = <<>>) =>
              (cart' = cart /\ lastResp'.details.deleted = FALSE)]_vars

\* C13, its case: removeItem has been called on a pair that has no line and has
\* returned false, while other lines are stored.
C13_Witness ==
  /\ lastResp.op = "removeItem" /\ lastResp.kind = "removed"
  /\ lastResp.details = [deleted |-> FALSE]
  /\ nreq >= 2
  /\ \E u \in Users, p \in Products : cart[u][p] # <<>>

\* The sum of price x quantity, and of quantity, over the first n lines of a view.
RECURSIVE SumPriceQuantity(_, _)
SumPriceQuantity(items, n) ==
  IF n = 0 THEN 0
  ELSE items[n].price * items[n].quantity + SumPriceQuantity(items, n - 1)

RECURSIVE SumOfQuantities(_, _)
SumOfQuantities(items, n) ==
  IF n = 0 THEN 0 ELSE items[n].quantity + SumOfQuantities(items, n - 1)

\* The quantities of the lines of a view that are lines of product p, in order.
QuantitiesOf(items, p) ==
  LET own == SelectSeq(items, LAMBDA it : it.product_id = p)
  IN  [i \in 1..Len(own) |-> own[i].quantity]

\* C14: getByUser returns exactly the user's lines whose product is available,
\* each with the product's price, with subtotal = sum of price x quantity and
\* item_count = sum of quantity over the returned lines; the lines of unavailable
\* products are left out of the view and stay stored; getByUser modifies nothing.
C14_GetByUserView ==
  [][\A u \in Users :
       Request(GetByUser(u)) =>
         LET view == lastResp'.details
         IN  /\ UNCHANGED <<products, cart, orders, order_items, req>>
             /\ \A i \in 1..Len(view.items) :
                  /\ view.items[i].product_id \in Products
                  /\ ProductAvailable(view.items[i].product_id)
                  /\ view.items[i].price = products[view.items[i].product_id].price
             /\ \A p \in Products :
                  QuantitiesOf(view.items, p) =
                    IF ProductAvailable(p) THEN cart[u][p] ELSE <<>>
             /\ view.summary.subtotal = SumPriceQuantity(view.items, Len(view.items))
             /\ view.summary.item_count = SumOfQuantities(view.items, Len(view.items))]_vars

\* C14, its case: getByUser has returned a view with one user's line of an
\* available product, priced, while the same user's line of a product that is no
\* longer available is left out and still stored.
C14_Witness ==
  /\ lastResp.op = "getByUser" /\ lastResp.kind = "ok"
  /\ Len(lastResp.details.items) = 1
  /\ lastResp.details.summary.subtotal > 0
  /\ \E p \in Products :
       ~ProductAvailable(p) /\ cart[lastResp.user][p] # <<>>

\* Some stored line of u fails a check of validate: its product is no longer
\* available, or its quantity exceeds the product's stock.
SomeLineFails(u) ==
  \E p \in Products :
    /\ cart[u][p] # <<>>
    /\ \/ ~ProductAvailable(p)
       \/ \E i \in 1..Len(cart[u][p]) : cart[u][p][i] > products[p].stock

\* C15: validate(user) re-checks every cart line of the user: it returns
\* valid = false with a violation whenever some line's product is no longer
\* available or some line's quantity exceeds the product's stock, and valid = true
\* only when the cart is non-empty and every line passes both checks.
C15_ValidateChecksEveryLine ==
  [][\A u \in Users :
       Request(ValidateCart(u)) =>
         LET res == lastResp'.details
         IN  /\ SomeLineFails(u) => (~res.valid /\ Len(res.errors) > 0)
             /\ res.valid =>
                  /\ \E p \in Products : cart[u][p] # <<>>
                  /\ ~SomeLineFails(u)]_vars

\* C15, its case: validate has answered valid = true for a user who has a stored
\* line of a product that is no longer available.
C15_Witness ==
  /\ lastResp.op = "validateCart"
  /\ lastResp.details.valid
  /\ \E p \in Products : ~ProductAvailable(p) /\ cart[lastResp.user][p] # <<>>

\* C16: validate on an empty cart returns valid = false with a non-empty list of
\* violations that contains the empty-cart message.
C16_ValidateEmptyCart ==
  [][\A u \in Users :
       (Request(ValidateCart(u)) /\ \A p \in Products : cart[u][p] = <<>>) =>
         LET res == lastResp'.details
         IN  /\ ~res.valid
             /\ Len(res.errors) > 0
             /\ \E i \in 1..Len(res.errors) : res.errors[i].kind = "empty"]_vars

\* C16, its case: validate has been answered for a user whose cart is empty, while
\* another user's cart is not.
C16_Witness ==
  /\ lastResp.op = "validateCart"
  /\ ~lastResp.details.valid
  /\ \A p \in Products : cart[lastResp.user][p] = <<>>
  /\ \E u \in Users, p \in Products : cart[u][p] # <<>>

\* The caller of a cancel request may cancel the order: its owner, or an admin.
MayCancel(userId, isAdmin, id) == isAdmin \/ orders[id].user_id = userId

\* The cancel request in slot r is refused on this step with InvalidTransition.
CancelRefused(r) ==
  /\ req'[r].pc = "idle"
  /\ lastResp'.op = "cancel"
  /\ lastResp'.kind = "InvalidTransition"

\* C17: a cancel request made, while no other request is in progress, for an
\* existing order by a caller allowed to cancel it is refused with InvalidTransition exactly when the order's status is
\* delivered or cancelled, and a refusal leaves the order unchanged; for pending,
\* confirmed, processing and shipped it goes on, and its write sets the status
\* to cancelled and records the reason in notes.
C17_CancelUnlessDeliveredOrCancelled ==
  [][\A r \in Reqs :
       /\ \A u \in Users, isAdmin \in BOOLEAN, id \in OrderIdInputs,
             reason \in ReasonInputs :
            (/\ Request(OrderCancelBegin(r, u, isAdmin, id, reason))
             /\ OrderExists(id)
             /\ MayCancel(u, isAdmin, id)
             /\ \A r2 \in Reqs : req[r2].pc = "idle")
            => /\ CancelRefused(r) <=> orders[id].status \in {"delivered", "cancelled"}
               /\ orders' = orders
       /\ Step(OrderCancelWrite(r))
            => /\ lastResp'.kind = "ok"
               /\ orders'[req[r].orderId].status = "cancelled"
               /\ orders'[req[r].orderId].notes = CancelNotes(req[r].reason)]_vars

\* A cancel request for a shipped order has been refused with InvalidTransition.
C17_Witness ==
  /\ lastResp.op = "cancel"
  /\ lastResp.kind = "InvalidTransition"
  /\ \A id \in 1..Len(orders) : orders[id].status = "shipped"
  /\ Len(orders) > 0

\* C18: an admin's updateStatus of an existing order with one of the six statuses
\* sets the order's status to it, whatever the status was, and changes nothing
\* else; with any other value it answers InvalidStatus and changes no order.
C18_UpdateStatusAnyToAny ==
  [][\A id \in OrderIdInputs, status \in StatusInputs :
       (Request(OrderUpdateStatus(TRUE, id, status)) /\ OrderExists(id))
       => IF status \in {"pending", "confirmed", "processing", "shipped",
                          "delivered", "cancelled"}
          THEN /\ lastResp'.kind = "ok"
               /\ orders' = [orders EXCEPT ![id].status = status]
          ELSE /\ lastResp'.kind = "InvalidStatus"
               /\ orders' = orders]_vars

\* An updateStatus has moved a cancelled order (its notes say so) back to pending.
C18_Witness ==
  /\ lastResp.op = "updateStatus"
  /\ lastResp.kind = "ok"
  /\ lastResp.details.status = "pending"
  /\ lastResp.details.notes # NoNotes
  /\ orders[lastResp.details.id].status = "pending"

\* C19: every order is created with status pending, and an order whose status is
\* delivered or cancelled keeps that status on every later step.
C19_PendingFirstTerminalLast ==
  [][/\ \A id \in 1..Len(orders') :
          id > Len(orders) => orders'[id].status = "pending"
     /\ \A id \in 1..Len(orders) :
          orders[id].status \in {"delivered", "cancelled"}
          => orders'[id].status = orders[id].status]_vars

\* An order that was cancelled (its notes say so) has the status confirmed.
C19_Witness ==
  \E id \in 1..Len(orders) :
    /\ orders[id].notes # NoNotes
    /\ orders[id].status = "confirmed"

\* The payment status of every stored order, by id.
PaymentStatuses(table) == [id \in 1..Len(table) |-> table[id].payment_status]

\* C20: an admin's updatePaymentStatus of an existing order with one of the four
\* payment statuses succeeds whatever the order's status is and changes nothing
\* but that order's payment_status; no step of updateStatus or of cancel changes
\* the payment_status of any order.
C20_PaymentStatusIndependent ==
  [][/\ \A id \in OrderIdInputs, ps \in {"pending", "paid", "failed", "refunded"} :
          (Request(OrderUpdatePaymentStatus(TRUE, id, ps)) /\ OrderExists(id))
          => /\ lastResp'.kind = "ok"
             /\ orders' = [orders EXCEPT ![id].payment_status = ps]
             /\ UNCHANGED <<products, cart, order_items>>
     /\ PaymentStatuses(orders') # PaymentStatuses(orders)
        => ~(\/ \E isAdmin \in BOOLEAN, id \in OrderIdInputs, status \in StatusInputs :
                 Request(OrderUpdateStatus(isAdmin, id, status))
             \/ \E r \in Reqs, u \in Users, isAdmin \in BOOLEAN, id \in OrderIdInputs,
                   reason \in ReasonInputs :
                 Request(OrderCancelBegin(r, u, isAdmin, id, reason))
             \/ \E r \in Reqs : Step(OrderCancelFind(r)) \/ Step(OrderCancelWrite(r)))]_vars

\* A cancel has succeeded on an order whose payment is paid, and left it paid.
C20_Witness ==
  /\ lastResp.op = "cancel"
  /\ lastResp.kind = "ok"
  /\ lastResp.details.status = "cancelled"
  /\ lastResp.details.payment_status = "paid"
  /\ orders[lastResp.details.id].payment_status = "paid"

\* The stored lines of the order id, in the order of their insertion.
LinesOf(table, id) == SelectSeq(table, LAMBDA row : row.order_id = id)

\* s is the beginning of t.
IsPrefix(s, t) == Len(s) <= Len(t) /\ SubSeq(t, 1, Len(s)) = s

\* C22: on every step each stored order stays stored and each of its stored
\* lines stays stored (lines are only added).
C22_OrdersNeverDeleted ==
  [][\A id \in 1..Len(orders) :
       Stored(orders, id)
       => /\ Stored(orders', id)
          /\ IsPrefix(LinesOf(order_items, id), LinesOf(order_items', id))]_vars

\* An order that was created is no longer stored, and neither is any line of it.
C22_Witness ==
  \E id \in 1..Len(orders) :
    /\ ~Stored(orders, id)
    /\ LinesOf(order_items, id) = <<>>
    /\ lastResp.op = "delete"
    /\ lastResp.kind = "ok"

\* The creation of the order id is still inserting its lines.
BeingCreated(id) ==
  \E r \in Reqs : req[r].op = "orderCreate" /\ req[r].pc = "items" /\ req[r].orderId = id

\* C21: once the creation of an order has ended, no step changes the order's
\* total_amount or its stored lines (product, quantity and unit price).
C21_TotalAndLinesFrozen ==
  [][\A id \in 1..Len(orders) :
       (Stored(orders, id) /\ ~BeingCreated(id))
       => /\ orders'[id].total_amount = orders[id].total_amount
          /\ LinesOf(order_items', id) = LinesOf(order_items, id)]_vars

\* An order's lines have been deleted while the order row is still stored with
\* the total of those lines.
C21_Witness ==
  \E id \in 1..Len(orders) :
    /\ Stored(orders, id)
    /\ ~BeingCreated(id)
    /\ orders[id].total_amount > 0
    /\ LinesOf(order_items, id) = <<>>

\* The request answered on this step was refused as Forbidden and changed nothing.
RefusedForbidden ==
  /\ lastResp'.kind = "Forbidden"
  /\ UNCHANGED <<products, cart, orders, order_items, req>>

\* C23: a getById or cancel request for a stored order by a caller who is neither
\* its owner nor an admin is answered Forbidden and changes nothing, and a getById
\* answered with the order was made by its owner or an admin; updateStatus,
\* updatePaymentStatus, bulkUpdateStatus and bulkCancel requests of a caller who
\* is not an admin are answered Forbidden and change nothing.
C23_OwnerOrAdminOnly ==
  [][/\ (nreq' # nreq /\ lastResp'.op = "getById")
        => /\ \A u \in Users, id \in OrderIdInputs :
                (/\ OrderExists(id)
                 /\ orders[id].user_id # u
                 /\ Request(OrderGetById(u, FALSE, id)))
                => RefusedForbidden
           /\ lastResp'.kind = "ok"
              => \E isAdmin \in BOOLEAN, id \in OrderIdInputs :
                   /\ Request(OrderGetById(lastResp'.user, isAdmin, id))
                   /\ OrderExists(id)
                   /\ isAdmin \/ orders[id].user_id = lastResp'.user
     /\ (nreq' # nreq /\ lastResp'.op = "updateStatus")
        => \A id \in OrderIdInputs, status \in StatusInputs :
             Request(OrderUpdateStatus(FALSE, id, status)) => RefusedForbidden
     /\ (nreq' # nreq /\ lastResp'.op = "updatePaymentStatus")
        => \A id \in OrderIdInputs, ps \in PaymentStatusInputs :
             Request(OrderUpdatePaymentStatus(FALSE, id, ps)) => RefusedForbidden
     /\ (nreq' # nreq /\ lastResp'.op = "bulkUpdateStatus")
        => \A ids \in BulkIdsInputs, status \in StatusInputs :
             Request(OrderBulkUpdateStatus(FALSE, ids, status)) => RefusedForbidden
     /\ nreq' # nreq
        => \A r \in {r2 \in Reqs : /\ req[r2].pc = "idle"
                                  /\ \/ lastResp'.op \in {"cancel", "bulkCancel"}
                                     \/ req'[r2].op \in {"cancel", "bulkCancel"}} :
             /\ \A u \in Users, id \in OrderIdInputs, reason \in ReasonInputs :
                  (/\ OrderExists(id)
                   /\ orders[id].user_id # u
                   /\ Request(OrderCancelBegin(r, u, FALSE, id, reason)))
                  => RefusedForbidden
             /\ \A ids \in BulkIdsInputs, reason \in ReasonInputs :
                  Request(OrderBulkCancelBegin(r, FALSE, ids, reason))
                  => RefusedForbidden]_vars

\* A cancel request for a stored pending order, made by a user who is not its
\* owner, has been answered Forbidden.
C23_Witness ==
  /\ lastResp.op = "cancel"
  /\ lastResp.kind = "Forbidden"
  /\ \E id \in 1..Len(orders) :
       /\ Stored(orders, id)
       /\ orders[id].status = "pending"
       /\ orders[id].user_id # lastResp.user
  /\ \A id \in 1..Len(orders) : Stored(orders, id) /\ orders[id].user_id # lastResp.user

\* A delete request for the order id is between its two statements.
BeingDeleted(id) ==
  \E r \in Reqs : req[r].op = "delete" /\ req[r].pc = "deleteOrder" /\ req[r].orderId = id

\* Sum of quantity x price over stored order lines.
RECURSIVE LinesTotal(_)
LinesTotal(lines) ==
  IF lines = <<>> THEN 0
  ELSE lines[1].quantity * lines[1].price + LinesTotal(Tail(lines))

\* C24: in every reachable state, every stored order whose creation has ended
\* (and which no delete request is removing) has a total_amount equal to the sum
\* of quantity x price over its stored lines, so it has all the lines it was
\* created from.
C24_OrderAndLinesAtomic ==
  \A id \in 1..Len(orders) :
    (Stored(orders, id) /\ ~BeingCreated(id) /\ ~BeingDeleted(id))
    => orders[id].total_amount = LinesTotal(LinesOf(order_items, id))

\* An order creation has ended in a storage failure and its order row is stored
\* with a total that its stored lines do not add up to.
C24_Witness ==
  /\ lastResp.op = "orderCreate"
  /\ lastResp.kind = "StorageError"
  /\ Stored(orders, lastResp.details.id)
  /\ ~BeingDeleted(lastResp.details.id)
  /\ orders[lastResp.details.id].total_amount
       > LinesTotal(LinesOf(order_items, lastResp.details.id))

\* C25: when a checkout that has read a cart with lines comes to compute its total
\* and the cart's total then differs from the subtotal of the cart it read first, the
\* checkout is answered CartInvalid and no order is created.
C25_TotalMismatchAborts ==
  [][\A r \in Reqs :
       (/\ req[r].op = "checkout"
        /\ Step(CheckoutValidate(r))
        /\ req[r].items # <<>>
        /\ CartWellFormed(req[r].user)
        /\ GetByUserResult(req[r].user).summary.total # SumItemTotal(req[r].items))
       => /\ lastResp'.kind = "CartInvalid"
          /\ orders' = orders
          /\ order_items' = order_items]_vars

\* A checkout has been answered with a server error although the total of the
\* user's cart is no longer the subtotal a cart of these lines had at price 1.
C25_Witness ==
  /\ lastResp.op = "checkout"
  /\ lastResp.kind = "ServerError"
  /\ orders = <<>>
  /\ CartWellFormed(lastResp.user)
  /\ GetByUserResult(lastResp.user).summary.total
       > GetByUserResult(lastResp.user).summary.item_count

\* The ids of a list naming a stored order that is neither delivered nor cancelled.
Cancellable(ids) ==
  {id \in IdSet(ids) : Stored(orders, id) /\ orders[id].status \notin {"delivered", "cancelled"}}

\* What a bulkCancel of ids leaves in the table: the cancellable orders cancelled
\* with the notes of the reason, every other order as it was.
AfterBulkCancel(ids, reason) ==
  [id \in 1..Len(orders) |->
     IF id \in Cancellable(ids)
     THEN [orders[id] EXCEPT !.status = "cancelled", !.notes = BulkCancelNotes(reason)]
     ELSE orders[id]]

\* The result of a bulkCancel of ids tells how many were cancelled and how many
\* of the ids given were not.
ReportsSkipped(resp, ids) ==
  /\ resp.kind = "ok"
  /\ resp.details.cancelled = Cardinality(Cancellable(ids))
  /\ resp.details.total - resp.details.cancelled = Len(ids) - Cardinality(Cancellable(ids))
  /\ (Cardinality(Cancellable(ids)) \in 1..(Len(ids) - 1))
     => resp.details.errors
          = <<[kind |-> "skipped", count |-> Len(ids) - Cardinality(Cancellable(ids))]>>

AfterUpdateStatusOfEach(ids, status) ==
  [id \in 1..Len(orders) |->
     IF id \in IdSet(ids) /\ Stored(orders, id)
        /\ status \in {"pending", "confirmed", "processing", "shipped", "delivered",
                        "cancelled"}
     THEN [orders[id] EXCEPT !.status = status]
     ELSE orders[id]]

\* A bulk result tells of each id whether it was updated: it names the ids, or
\* its counts leave no choice (all of them were updated, or none).
TellsEachId(details) ==
  \/ "results" \in DOMAIN details
  \/ details.updated = details.total
  \/ details.updated = 0

\* C27: an admin's bulkUpdateStatus of ids leaves every order as updateStatus with
\* the same status, applied to each id of ids, would leave it, and a result it
\* answers tells of each id whether its order was updated.
C27_BulkUpdateStatusPerId ==
  [][(nreq' # nreq /\ lastResp'.op = "bulkUpdateStatus")
     => \A ids \in BulkIdsInputs, status \in StatusInputs :
          Request(OrderBulkUpdateStatus(TRUE, ids, status))
          => /\ orders' = AfterUpdateStatusOfEach(ids, status)
             /\ lastResp'.kind = "ok" => TellsEachId(lastResp'.details)]_vars

\* A bulkUpdateStatus of two ids has updated one order and answered with the
\* counts 1 of 2.
C27_Witness ==
  /\ lastResp.op = "bulkUpdateStatus"
  /\ lastResp.kind = "ok"
  /\ lastResp.details.updated = 1
  /\ lastResp.details.total = 2
  /\ Stored(orders, 1)
  /\ orders[1].status = lastResp.details.status

\* C30: the write of a cancel or of a bulkCancel sets to cancelled no order whose
\* stored status is delivered when the write runs.
C30_CancelWriteSeesStatus ==
  [][\A r \in Reqs :
       (Step(OrderCancelWrite(r)) \/ Step(OrderBulkCancelWrite(r)))
       => \A id \in 1..Len(orders) :
            (Stored(orders, id) /\ orders[id].status = "delivered")
            => orders'[id].status # "cancelled"]_vars

====
